---- MODULE Spec2Model ----
(***************************************************************************)
(* System Program event extraction (src/src/lib.rs): parse_block iterates  *)
(* the transactions of a block, parse_transaction iterates the flattened   *)
(* instruction stream of one transaction, parse_instruction decodes one    *)
(* System Program instruction and resolves its accounts into an event.     *)
(*                                                                         *)
(* Bytes are naturals 0..255, byte strings are sequences of bytes, and a   *)
(* text (Rust String) is the sequence of its character codes.              *)
(***************************************************************************)
EXTENDS Integers, Sequences, FiniteSets, TLC

(***************************************************************************)
(* Bounds of the model.                                                    *)
(***************************************************************************)
\* Size of a driver block: one unit per transaction plus one per instruction.
MaxBlockSize == 4
\* Longest seed text among the enumerated seed-carrying instructions.
MaxSeedLen == 2

(***************************************************************************)
(* Byte-string helpers.                                                    *)
(***************************************************************************)
Take(s, n) == SubSeq(s, 1, n)
Drop(s, n) == SubSeq(s, n + 1, Len(s))
Zeros(n) == [k \in 1..n |-> 0]

Reverse(s) == [k \in 1..Len(s) |-> s[Len(s) + 1 - k]]

\* Little-endian unsigned integer held in a byte string.
RECURSIVE FromLE(_)
FromLE(bytes) == IF bytes = <<>> THEN 0 ELSE Head(bytes) + 256 * FromLE(Tail(bytes))

\* The n-byte little-endian image of v.
RECURSIVE ToLE(_, _)
ToLE(v, n) == IF n = 0 THEN <<>> ELSE <<v % 256>> \o ToLE(v \div 256, n - 1)

(***************************************************************************)
(* bs58::encode(..).into_string(): the Bitcoin alphabet, one '1' per       *)
(* leading zero byte, and the base-58 digits of the remaining big-endian   *)
(* number, computed digit-wise as the crate does.                          *)
(***************************************************************************)
\* "123456789ABCDEFGHJKLMNPQRSTUVWXYZabcdefghijkmnopqrstuvwxyz" as codes.
Base58Alphabet ==
    <<49, 50, 51, 52, 53, 54, 55, 56, 57,
      65, 66, 67, 68, 69, 70, 71, 72, 74, 75, 76, 77, 78,
      80, 81, 82, 83, 84, 85, 86, 87, 88, 89, 90,
      97, 98, 99, 100, 101, 102, 103, 104, 105, 106, 107,
      109, 110, 111, 112, 113, 114, 115, 116, 117, 118, 119, 120, 121, 122>>

\* digits (little-endian, base 58) := digits * 256 + carry, from digit k on.
RECURSIVE MulAdd(_, _, _)
MulAdd(digits, k, carry) ==
    IF k > Len(digits)
    THEN IF carry = 0 THEN <<>> ELSE <<carry % 58>> \o MulAdd(digits, k, carry \div 58)
    ELSE LET v == digits[k] * 256 + carry
         IN  <<v % 58>> \o MulAdd(digits, k + 1, v \div 58)

LeadingZeros(bytes) ==
    Cardinality({k \in 1..Len(bytes) : \A m \in 1..k : bytes[m] = 0})

\* The digits of the first n bytes; leading zero bytes leave them empty.
RECURSIVE Base58Digits(_, _)
Base58Digits(bytes, n) ==
    IF n <= LeadingZeros(bytes) THEN <<>>
    ELSE MulAdd(Base58Digits(bytes, n - 1), 1, bytes[n])

Base58(bytes) ==
    LET digits == Reverse(Base58Digits(bytes, Len(bytes)))
    IN  [k \in 1..LeadingZeros(bytes) |-> Base58Alphabet[1]]
        \o [k \in 1..Len(digits) |-> Base58Alphabet[digits[k] + 1]]

(***************************************************************************)
(* Keys.  A key is KeyLen raw bytes; the System Program's key is all zero, *)
(* so its text is KeyLen times '1'.                                        *)
(***************************************************************************)
KeyLen == 32
Key(b) == Zeros(KeyLen - 1) \o <<b>>
SystemKey == Zeros(KeyLen)
SYSTEM_PROGRAM_ID == [k \in 1..KeyLen |-> Base58Alphabet[1]]

(***************************************************************************)
(* SystemInstruction::unpack: the layout decoder.                          *)
(***************************************************************************)
Variants ==
    <<"CreateAccount", "Assign", "Transfer", "CreateAccountWithSeed",
      "AdvanceNonceAccount", "WithdrawNonceAccount", "InitializeNonceAccount",
      "AuthorizeNonceAccount", "Allocate", "AllocateWithSeed", "AssignWithSeed",
      "TransferWithSeed", "UpgradeNonceAccount">>

\* Data fields of each variant, in declared order, with their wire type.
Layout(variant) ==
    CASE variant = "CreateAccount" ->
            << <<"lamports", "u64">>, <<"space", "u64">>, <<"owner", "key">> >>
      [] variant = "Assign" -> << <<"owner", "key">> >>
      [] variant = "Transfer" -> << <<"lamports", "u64">> >>
      [] variant = "CreateAccountWithSeed" ->
            << <<"base", "key">>, <<"seed", "string">>, <<"lamports", "u64">>,
               <<"space", "u64">>, <<"owner", "key">> >>
      [] variant = "AdvanceNonceAccount" -> << >>
      [] variant = "WithdrawNonceAccount" -> << <<"lamports", "u64">> >>
      [] variant = "InitializeNonceAccount" -> << <<"authority", "key">> >>
      [] variant = "AuthorizeNonceAccount" -> << <<"new_authority", "key">> >>
      [] variant = "Allocate" -> << <<"space", "u64">> >>
      [] variant = "AllocateWithSeed" ->
            << <<"base", "key">>, <<"seed", "string">>, <<"space", "u64">>,
               <<"owner", "key">> >>
      [] variant = "AssignWithSeed" ->
            << <<"base", "key">>, <<"seed", "string">>, <<"owner", "key">> >>
      [] variant = "TransferWithSeed" ->
            << <<"lamports", "u64">>, <<"from_seed", "string">>,
               <<"from_owner", "key">> >>
      [] variant = "UpgradeNonceAccount" -> << >>

\* A seed's bytes are accepted as text when they are UTF-8; every byte string
\* the model enumerates is either ASCII or holds the byte 255, which no UTF-8
\* text contains.
ValidUtf8(bytes) == \A k \in 1..Len(bytes) : bytes[k] < 128

DecodeErr(e) == [tag |-> "Err", err |-> e]

\* Reads the fields of `layout` from `rest` in order; `acc` holds those read.
RECURSIVE DecodeFields(_, _, _)
DecodeFields(rest, layout, acc) ==
    IF layout = <<>> THEN [tag |-> "Ok", fields |-> acc]
    ELSE
      LET name == Head(layout)[1]
          type == Head(layout)[2]
      IN  CASE type = "u64" ->
                 IF Len(rest) < 8 THEN DecodeErr("TruncatedData")
                 ELSE DecodeFields(Drop(rest, 8), Tail(layout),
                                   acc @@ (name :> FromLE(Take(rest, 8))))
            [] type = "key" ->
                 IF Len(rest) < KeyLen THEN DecodeErr("TruncatedData")
                 ELSE DecodeFields(Drop(rest, KeyLen), Tail(layout),
                                   acc @@ (name :> Take(rest, KeyLen)))
            [] type = "string" ->
                 IF Len(rest) < 8 THEN DecodeErr("TruncatedData")
                 ELSE LET n == FromLE(Take(rest, 8))
                          bytes == SubSeq(rest, 9, 8 + n)
                      IN  IF n > Len(rest) - 8 THEN DecodeErr("TruncatedData")
                          ELSE IF ~ValidUtf8(bytes) THEN DecodeErr("InvalidSeedEncoding")
                          ELSE DecodeFields(Drop(rest, 8 + n), Tail(layout),
                                            acc @@ (name :> bytes))

\* SystemInstruction::unpack(data)
unpack(data) ==
    IF Len(data) < 4 THEN DecodeErr("TruncatedData")
    ELSE LET discriminant == FromLE(Take(data, 4))
         IN  IF discriminant >= Len(Variants) THEN DecodeErr("UnknownDiscriminant")
             ELSE LET variant == Variants[discriminant + 1]
                      r == DecodeFields(Drop(data, 4), Layout(variant),
                                        "variant" :> variant)
                  IN  r

(***************************************************************************)
(* Results.  A Rust panic (an out-of-bounds index, an unwrap of None) is   *)
(* the outcome Panic: it unwinds through every caller.                     *)
(***************************************************************************)
Ok(v) == [tag |-> "Ok", event |-> v]
Err(e) == [tag |-> "Err", err |-> e]
Panic == [tag |-> "Panic"]

(***************************************************************************)
(* Account access of the resolver functions.                               *)
(***************************************************************************)
\* context.get_account_from_index(index): the key at `index` of the account
\* table; it returns a key, not a Result, so an index outside the table panics.
IndexInTable(context, index) == index < Len(context.accounts)
get_account_from_index(context, index) == context.accounts[index + 1]

\* instruction.accounts()[k] exists and names an entry of the account table,
\* for every position k of `positions`.
AccountsReadable(instruction, context, positions) ==
    \A k \in positions :
        /\ k < Len(instruction.accounts)
        /\ IndexInTable(context, instruction.accounts[k + 1])

\* bs58::encode(context.get_account_from_index(instruction.accounts()[k] as usize)).into_string()
AccountText(instruction, context, k) ==
    Base58(get_account_from_index(context, instruction.accounts[k + 1]))

(***************************************************************************)
(* The thirteen resolver functions.                                        *)
(***************************************************************************)
_parse_create_account_instruction(instruction, context, create_account) ==
    IF ~AccountsReadable(instruction, context, {0, 1}) THEN Panic
    ELSE Ok([type |-> "CreateAccount",
             funding_account |-> AccountText(instruction, context, 0),
             new_account |-> AccountText(instruction, context, 1),
             lamports |-> create_account.lamports,
             owner |-> Base58(create_account.owner),
             space |-> create_account.space])

_parse_assign_instruction(instruction, context, assign) ==
    IF ~AccountsReadable(instruction, context, {0}) THEN Panic
    ELSE Ok([type |-> "Assign",
             assigned_account |-> AccountText(instruction, context, 0),
             owner |-> Base58(assign.owner)])

_parse_transfer_instruction(instruction, context, transfer) ==
    IF ~AccountsReadable(instruction, context, {0, 1}) THEN Panic
    ELSE Ok([type |-> "Transfer",
             funding_account |-> AccountText(instruction, context, 0),
             recipient_account |-> AccountText(instruction, context, 1),
             lamports |-> transfer.lamports])

\* _parse_create_account_with_seed_instruction encoding the seed as its siblings do.
_parse_create_account_with_seed_instruction_encoded(instruction, context, create_account_with_seed) ==
    IF ~AccountsReadable(instruction, context, {0, 1}) THEN Panic
    ELSE Ok([type |-> "CreateAccountWithSeed",
             funding_account |-> AccountText(instruction, context, 0),
             created_account |-> AccountText(instruction, context, 1),
             base_account |-> Base58(create_account_with_seed.base),
             seed |-> Base58(create_account_with_seed.seed),
             lamports |-> create_account_with_seed.lamports,
             space |-> create_account_with_seed.space,
             owner |-> Base58(create_account_with_seed.owner)])

_parse_create_account_with_seed_instruction(instruction, context, create_account_with_seed) ==
    IF ~AccountsReadable(instruction, context, {0, 1}) THEN Panic
    ELSE Ok([type |-> "CreateAccountWithSeed",
             funding_account |-> AccountText(instruction, context, 0),
             created_account |-> AccountText(instruction, context, 1),
             base_account |-> Base58(create_account_with_seed.base),
             seed |-> create_account_with_seed.seed,
             lamports |-> create_account_with_seed.lamports,
             space |-> create_account_with_seed.space,
             owner |-> Base58(create_account_with_seed.owner)])

\* _parse_advance_nonce_account_instruction reading the authority at position 1.
_parse_advance_nonce_account_instruction_shifted(instruction, context) ==
    IF ~AccountsReadable(instruction, context, {0, 1}) THEN Panic
    ELSE Ok([type |-> "AdvanceNonceAccount",
             nonce_account |-> AccountText(instruction, context, 0),
             nonce_authority |-> AccountText(instruction, context, 1)])

_parse_advance_nonce_account_instruction(instruction, context) ==
    IF ~AccountsReadable(instruction, context, {0, 2}) THEN Panic
    ELSE Ok([type |-> "AdvanceNonceAccount",
             nonce_account |-> AccountText(instruction, context, 0),
             nonce_authority |-> AccountText(instruction, context, 2)])

_parse_withdraw_nonce_account_instruction(instruction, context, lamports) ==
    IF ~AccountsReadable(instruction, context, {0, 1, 4}) THEN Panic
    ELSE Ok([type |-> "WithdrawNonceAccount",
             nonce_account |-> AccountText(instruction, context, 0),
             recipient_account |-> AccountText(instruction, context, 1),
             nonce_authority |-> AccountText(instruction, context, 4),
             lamports |-> lamports])

_parse_initialize_nonce_account_instruction(instruction, context, authority) ==
    IF ~AccountsReadable(instruction, context, {0}) THEN Panic
    ELSE Ok([type |-> "InitializeNonceAccount",
             nonce_account |-> AccountText(instruction, context, 0),
             nonce_authority |-> Base58(authority)])

_parse_authorize_nonce_account_instruction(instruction, context, pubkey) ==
    IF ~AccountsReadable(instruction, context, {0, 1}) THEN Panic
    ELSE Ok([type |-> "AuthorizeNonceAccount",
             nonce_account |-> AccountText(instruction, context, 0),
             nonce_authority |-> AccountText(instruction, context, 1),
             new_nonce_authority |-> Base58(pubkey)])

_parse_allocate_instruction(instruction, context, allocate) ==
    IF ~AccountsReadable(instruction, context, {0}) THEN Panic
    ELSE Ok([type |-> "Allocate",
             account |-> AccountText(instruction, context, 0),
             space |-> allocate.space])

_parse_allocate_with_seed_instruction(instruction, context, allocate_with_seed) ==
    IF ~AccountsReadable(instruction, context, {0}) THEN Panic
    ELSE Ok([type |-> "AllocateWithSeed",
             allocated_account |-> AccountText(instruction, context, 0),
             base_account |-> Base58(allocate_with_seed.base),
             seed |-> Base58(allocate_with_seed.seed),
             owner |-> Base58(allocate_with_seed.owner),
             space |-> allocate_with_seed.space])

_parse_assign_with_seed_instruction(instruction, context, assign_with_seed) ==
    IF ~AccountsReadable(instruction, context, {0}) THEN Panic
    ELSE Ok([type |-> "AssignWithSeed",
             assigned_account |-> AccountText(instruction, context, 0),
             base_account |-> Base58(assign_with_seed.base),
             owner |-> Base58(assign_with_seed.owner),
             seed |-> Base58(assign_with_seed.seed)])

_parse_transfer_with_seed_instruction(instruction, context, transfer_with_seed) ==
    IF ~AccountsReadable(instruction, context, {0, 1, 2}) THEN Panic
    ELSE Ok([type |-> "TransferWithSeed",
             funding_account |-> AccountText(instruction, context, 0),
             base_account |-> AccountText(instruction, context, 1),
             recipient_account |-> AccountText(instruction, context, 2),
             from_owner |-> Base58(transfer_with_seed.from_owner),
             from_seed |-> Base58(transfer_with_seed.from_seed),
             lamports |-> transfer_with_seed.lamports])

_parse_upgrade_nonce_account_instruction(instruction, context) ==
    IF ~AccountsReadable(instruction, context, {0}) THEN Panic
    ELSE Ok([type |-> "UpgradeNonceAccount",
             nonce_account |-> AccountText(instruction, context, 0)])

(***************************************************************************)
(* parse_instruction                                                       *)
(***************************************************************************)
\* IsSystemProgram without the comparison.
IsSystemProgram_any(instruction, context) == TRUE

\* The owning-program test of parse_transaction and parse_instruction:
\* bs58::encode(context.get_account_from_index(program_id_index)) == SYSTEM_PROGRAM_ID
IsSystemProgram(instruction, context) ==
    Base58(get_account_from_index(context, instruction.program_id_index)) = SYSTEM_PROGRAM_ID

\* The match of parse_instruction over the unpacked variant.
Dispatch(instruction, context, unpacked) ==
    CASE unpacked.variant = "CreateAccount" ->
            _parse_create_account_instruction(instruction, context, unpacked)
      [] unpacked.variant = "Assign" ->
            _parse_assign_instruction(instruction, context, unpacked)
      [] unpacked.variant = "Transfer" ->
            _parse_transfer_instruction(instruction, context, unpacked)
      [] unpacked.variant = "CreateAccountWithSeed" ->
            _parse_create_account_with_seed_instruction(instruction, context, unpacked)
      [] unpacked.variant = "AdvanceNonceAccount" ->
            _parse_advance_nonce_account_instruction(instruction, context)
      [] unpacked.variant = "WithdrawNonceAccount" ->
            _parse_withdraw_nonce_account_instruction(instruction, context, unpacked.lamports)
      [] unpacked.variant = "InitializeNonceAccount" ->
            _parse_initialize_nonce_account_instruction(instruction, context, unpacked.authority)
      [] unpacked.variant = "AuthorizeNonceAccount" ->
            _parse_authorize_nonce_account_instruction(instruction, context, unpacked.new_authority)
      [] unpacked.variant = "Allocate" ->
            _parse_allocate_instruction(instruction, context, unpacked)
      [] unpacked.variant = "AllocateWithSeed" ->
            _parse_allocate_with_seed_instruction(instruction, context, unpacked)
      [] unpacked.variant = "AssignWithSeed" ->
            _parse_assign_with_seed_instruction(instruction, context, unpacked)
      [] unpacked.variant = "TransferWithSeed" ->
            _parse_transfer_with_seed_instruction(instruction, context, unpacked)
      [] unpacked.variant = "UpgradeNonceAccount" ->
            _parse_upgrade_nonce_account_instruction(instruction, context)

\* parse_instruction unwrapping the result of unpack instead of returning its Err.
parse_instruction_unwrap(instruction, context) ==
    IF ~IndexInTable(context, instruction.program_id_index) THEN Panic
    ELSE IF ~IsSystemProgram(instruction, context)
    THEN Err("Not a System Program instruction.")
    ELSE LET unpacked == unpack(instruction.data)
         IN  IF unpacked.tag = "Err" THEN Panic
             ELSE Dispatch(instruction, context, unpacked.fields)

parse_instruction(instruction, context) ==
    IF ~IndexInTable(context, instruction.program_id_index) THEN Panic
    ELSE IF ~IsSystemProgram(instruction, context)
    THEN Err("Not a System Program instruction.")
    ELSE LET unpacked == unpack(instruction.data)
         IN  IF unpacked.tag = "Err" THEN Err(unpacked.err)
             ELSE Dispatch(instruction, context, unpacked.fields)

(***************************************************************************)
(* Inputs.  A transaction is                                               *)
(*   meta       "None" (no status metadata), "Some_ok" or "Some_err"       *)
(*   flatten_ok whether get_structured_instructions returns Ok             *)
(*   instrs     the flattened instruction stream                           *)
(*   accounts   the account table of its context                           *)
(*   signature  the bytes of its first signature                           *)
(* and an instruction is [program_id_index, accounts, data].               *)
(***************************************************************************)
\* Entry 0 is the System Program, entries 1..5 are five distinct accounts
\* (entry 1 also stands for the other program of an instruction).
AccountTable == <<SystemKey, Key(1), Key(2), Key(3), Key(4), Key(5)>>

\* Keys carried in instruction data; none of them is in the account table.
OwnerKey == Key(101)
BaseKey == Key(102)
AuthorityKey == Key(103)

\* The wire image of an instruction: discriminant, then the fields in order.
RECURSIVE PackFields(_, _)
PackFields(layout, vals) ==
    IF layout = <<>> THEN <<>>
    ELSE LET name == Head(layout)[1]
             type == Head(layout)[2]
             image == CASE type = "u64" -> ToLE(vals[name], 8)
                        [] type = "key" -> vals[name]
                        [] type = "string" -> ToLE(Len(vals[name]), 8) \o vals[name]
         IN  image \o PackFields(Tail(layout), vals)

Pack(discriminant, vals) ==
    ToLE(discriminant, 4) \o PackFields(Layout(Variants[discriminant + 1]), vals)

\* Field values of the enumerated well-formed instructions.
FieldValues(seed) ==
    [lamports |-> 500, space |-> 8, owner |-> OwnerKey, base |-> BaseKey,
     authority |-> AuthorityKey, new_authority |-> AuthorityKey,
     seed |-> seed, from_seed |-> seed, from_owner |-> OwnerKey]

\* ASCII seeds "", "a", "ab", ... up to MaxSeedLen characters.
Seeds == {[k \in 1..n |-> 96 + k] : n \in 0..MaxSeedLen}

SeedVariants ==
    {"CreateAccountWithSeed", "AllocateWithSeed", "AssignWithSeed", "TransferWithSeed"}

\* Well-formed data of every variant (one per seed for the seed variants).
WellFormedData ==
    {Pack(d, FieldValues(seed)) :
        d \in 0..(Len(Variants) - 1),
        seed \in Seeds}

Instruction(program, accounts, data) ==
    [program_id_index |-> program, accounts |-> accounts, data |-> data]

TransferData == Pack(2, FieldValues(<<>>))
AllocateData == Pack(8, FieldValues(<<>>))

\* The instruction kinds of the driver blocks.
TransferOk == Instruction(0, <<1, 2>>, TransferData)
AllocateOk == Instruction(0, <<3>>, AllocateData)
OtherProgram == Instruction(1, <<1, 2>>, TransferData)
TransferTruncated == Instruction(0, <<1, 2>>, Take(TransferData, 7))
TransferOneAccount == Instruction(0, <<1>>, TransferData)
DriverInstrs ==
    {TransferOk, AllocateOk, OtherProgram, TransferTruncated, TransferOneAccount}

TxStatuses ==
    {<<"Some_ok", TRUE>>, <<"Some_err", TRUE>>, <<"None", TRUE>>, <<"Some_ok", FALSE>>}

Transaction(status, instrs) ==
    [meta |-> status[1], flatten_ok |-> status[2], instrs |-> instrs]

RECURSIVE SeqsOfLen(_, _)
SeqsOfLen(S, n) ==
    IF n = 0 THEN {<<>>}
    ELSE {<<x>> \o s : x \in S, s \in SeqsOfLen(S, n - 1)}

\* Transactions of size w: w - 1 instructions.
TxsOfSize(w) ==
    {Transaction(st, instrs) : st \in TxStatuses, instrs \in SeqsOfLen(DriverInstrs, w - 1)}

\* Sequences of transactions of total size at most n.
RECURSIVE BlocksOfSize(_)
BlocksOfSize(n) ==
    {<<>>} \cup UNION {{<<tx>> \o rest : tx \in TxsOfSize(w), rest \in BlocksOfSize(n - w)} :
                        w \in 1..n}

DriverBlocks == BlocksOfSize(MaxBlockSize)

\* Account-index lists of the instruction-level blocks: both orders of the
\* five accounts, every shorter list, and lists with an index outside the table.
AccountLists ==
    {Take(<<1, 2, 3, 4, 5>>, n) : n \in 0..5}
    \cup {<<5, 4, 3, 2, 1>>, <<2, 1, 4, 3, 5>>}
    \cup {<<Len(AccountTable)>>, <<1, 2, 3, 4, Len(AccountTable)>>}

FullLists == {<<1, 2, 3, 4, 5>>, <<5, 4, 3, 2, 1>>}

\* One transaction of every status holding one instruction: every well-formed
\* data with every account list, every prefix of well-formed data, an unknown
\* discriminant, a seed that is not text, and a program index outside the table.
StrictPrefixes(data) == {Take(data, n) : n \in 0..(Len(data) - 1)}
BadSeedData == Pack(10, [FieldValues(<<255>>) EXCEPT !.seed = <<255>>])
UnknownData == ToLE(Len(Variants), 4) \o ToLE(500, 8)
SingleInstrs ==
    {Instruction(0, accts, data) : accts \in AccountLists, data \in WellFormedData}
    \cup {Instruction(0, <<1, 2, 3, 4, 5>>, data) :
            data \in UNION {StrictPrefixes(w) : w \in WellFormedData}}
    \cup {Instruction(0, <<1, 2, 3, 4, 5>>, BadSeedData),
          Instruction(0, <<1, 2, 3, 4, 5>>, UnknownData),
          Instruction(Len(AccountTable), <<1, 2, 3, 4, 5>>, TransferData)}
    \cup {Instruction(1, accts, data) : accts \in FullLists, data \in WellFormedData}
    \cup {Instruction(1, <<1>>, TransferData),
          Instruction(1, <<1, 2>>, Take(TransferData, 7))}
SingleBlocks ==
    {<<Transaction(st, <<instr>>)>> : st \in TxStatuses, instr \in SingleInstrs}

\* One successful transaction holding two seed-carrying instructions.
SeedInstrs ==
    {Instruction(0, <<1, 2, 3, 4, 5>>, Pack(d, FieldValues(seed))) :
        d \in {3, 9, 10, 11}, seed \in Seeds}
SeedPairBlocks ==
    {<<Transaction(<<"Some_ok", TRUE>>, <<a, b>>)>> : a \in SeedInstrs, b \in SeedInstrs}

\* The k-th transaction of a block carries the account table and a signature
\* of its own.
\* 64 bytes, the last one set to k.
SignatureBytes(k) == Zeros(63) \o <<k>>
Complete(shape) ==
    [k \in 1..Len(shape) |->
        [meta |-> shape[k].meta, flatten_ok |-> shape[k].flatten_ok,
         instrs |-> shape[k].instrs, accounts |-> AccountTable,
         signature |-> SignatureBytes(k)]]

Blocks == {Complete(b) : b \in DriverBlocks \cup SingleBlocks \cup SeedPairBlocks}

(***************************************************************************)
(* State.                                                                  *)
(***************************************************************************)
VARIABLES
    block,          \* the input of parse_block
    pc,             \* "parse_block", "parse_transaction", "returned", "panicked"
    i,              \* parse_block: index of the transaction of the loop
    j,              \* parse_transaction: index of the instruction of the loop
    events,         \* parse_transaction: the Vec of events
    block_events,   \* parse_block: the Vec of entries
    log             \* lines written by substreams::log::println

vars == <<block, pc, i, j, events, block_events, log>>

Init ==
    /\ block \in Blocks
    /\ pc = "parse_block"
    /\ i = 0
    /\ j = 0
    /\ events = <<>>
    /\ block_events = <<>>
    /\ log = <<>>

\* utils::transaction::get_context(transaction)
get_context(transaction) == [accounts |-> transaction.accounts]
\* utils::transaction::get_signature(transaction)
get_signature(transaction) == Base58(transaction.signature)
\* instructions.flattened()
flattened(transaction) == transaction.instrs

transaction == block[i + 1]
instruction == flattened(transaction)[j + 1]

\* transaction.meta.as_ref().unwrap().err is Some
HasMeta(tx) == tx.meta # "None"
\* IsFailed without the test of meta.err.
IsFailed_unchecked(tx) == FALSE
IsFailed(tx) == tx.meta = "Some_err"

\* PushEvent numbering the events instead of the instructions.
PushEvent_counted(evs, index, event) ==
    Append(evs, [instruction_index |-> Len(evs), event |-> event])

\* events.push(SystemProgramEvent { instruction_index: i as u32, event })
PushEvent(evs, index, event) ==
    Append(evs, [instruction_index |-> index, event |-> event])

\* PushEntry numbering the entries instead of the transactions.
PushEntry_counted(entries, tx, index, evs) ==
    IF evs # <<>>
    THEN Append(entries, [signature |-> get_signature(tx),
                          transaction_index |-> Len(entries),
                          events |-> evs])
    ELSE entries

\* block_events.push(SystemProgramTransactionEvents { signature, transaction_index, events })
PushEntry(entries, tx, index, evs) ==
    IF evs # <<>>
    THEN Append(entries, [signature |-> get_signature(tx),
                          transaction_index |-> index,
                          events |-> evs])
    ELSE entries

(***************************************************************************)
(* parse_block calls parse_transaction on transaction i.                   *)
(***************************************************************************)
\* meta is None: unwrap panics.
TxUnwrapPanic ==
    /\ pc = "parse_block" /\ i < Len(block)
    /\ ~HasMeta(transaction)
    /\ pc' = "panicked"
    /\ UNCHANGED <<block, i, j, events, block_events, log>>

\* Err("Cannot parse failed transaction."): parse_block moves on.
TxFailed ==
    /\ pc = "parse_block" /\ i < Len(block)
    /\ HasMeta(transaction) /\ IsFailed(transaction)
    /\ i' = i + 1
    /\ UNCHANGED <<block, pc, j, events, block_events, log>>

\* get_structured_instructions(transaction)? returns the Err: parse_block moves on.
TxFlattenErr ==
    /\ pc = "parse_block" /\ i < Len(block)
    /\ HasMeta(transaction) /\ ~IsFailed(transaction)
    /\ ~transaction.flatten_ok
    /\ i' = i + 1
    /\ UNCHANGED <<block, pc, j, events, block_events, log>>

\* TxBegin using the result of get_structured_instructions without the test of `?`.
TxBegin_unchecked ==
    /\ pc = "parse_block" /\ i < Len(block)
    /\ HasMeta(transaction) /\ ~IsFailed(transaction)
    /\ pc' = "parse_transaction"
    /\ j' = 0
    /\ events' = <<>>
    /\ UNCHANGED <<block, i, block_events, log>>

\* The loop over the flattened instructions starts with no events.
TxBegin ==
    /\ pc = "parse_block" /\ i < Len(block)
    /\ HasMeta(transaction) /\ ~IsFailed(transaction)
    /\ transaction.flatten_ok
    /\ pc' = "parse_transaction"
    /\ j' = 0
    /\ events' = <<>>
    /\ UNCHANGED <<block, i, block_events, log>>

(***************************************************************************)
(* One iteration of the loop of parse_transaction.                         *)
(***************************************************************************)
AtInstruction ==
    pc = "parse_transaction" /\ j < Len(flattened(transaction))

\* The program index is outside the account table, or the resolver panics.
InstrPanic ==
    /\ AtInstruction
    /\ \/ ~IndexInTable(get_context(transaction), instruction.program_id_index)
       \/ /\ IndexInTable(get_context(transaction), instruction.program_id_index)
          /\ IsSystemProgram(instruction, get_context(transaction))
          /\ parse_instruction(instruction, get_context(transaction)).tag = "Panic"
    /\ pc' = "panicked"
    /\ UNCHANGED <<block, i, j, events, block_events, log>>

\* Not owned by the System Program: parse_instruction is not called.
InstrSkip ==
    /\ AtInstruction
    /\ IndexInTable(get_context(transaction), instruction.program_id_index)
    /\ ~IsSystemProgram(instruction, get_context(transaction))
    /\ j' = j + 1
    /\ UNCHANGED <<block, pc, i, events, block_events, log>>

\* Ok(event): the event is pushed with the position of the instruction.
InstrEvent ==
    /\ AtInstruction
    /\ IndexInTable(get_context(transaction), instruction.program_id_index)
    /\ IsSystemProgram(instruction, get_context(transaction))
    /\ LET r == parse_instruction(instruction, get_context(transaction))
       IN  /\ r.tag = "Ok"
           /\ events' = PushEvent(events, j, r.event)
    /\ j' = j + 1
    /\ UNCHANGED <<block, pc, i, block_events, log>>

\* Err(e): the error is printed and the instruction yields nothing.
InstrError ==
    /\ AtInstruction
    /\ IndexInTable(get_context(transaction), instruction.program_id_index)
    /\ IsSystemProgram(instruction, get_context(transaction))
    /\ LET r == parse_instruction(instruction, get_context(transaction))
       IN  /\ r.tag = "Err"
           /\ log' = Append(log, r.err)
    /\ j' = j + 1
    /\ UNCHANGED <<block, pc, i, events, block_events>>

\* Ok(events): parse_block pushes an entry when the list is not empty.
TxReturn ==
    /\ pc = "parse_transaction" /\ j = Len(flattened(transaction))
    /\ block_events' = PushEntry(block_events, transaction, i, events)
    /\ i' = i + 1
    /\ pc' = "parse_block"
    /\ UNCHANGED <<block, j, events, log>>

\* parse_block returns block_events.
BlockReturn ==
    /\ pc = "parse_block" /\ i = Len(block)
    /\ pc' = "returned"
    /\ UNCHANGED <<block, i, j, events, block_events, log>>

Next ==
    \/ TxUnwrapPanic
    \/ TxFailed
    \/ TxFlattenErr
    \/ TxBegin
    \/ InstrPanic
    \/ InstrSkip
    \/ InstrEvent
    \/ InstrError
    \/ TxReturn
    \/ BlockReturn

Spec == Init /\ [][Next]_vars

(***************************************************************************)
(* Vocabulary of the properties, stated on the input and not through the   *)
(* resolver functions.                                                     *)
(***************************************************************************)
\* Positional role table: variant -> (position in the account-index list -> field).
RoleTable(variant) ==
    CASE variant = "CreateAccount" -> (0 :> "funding_account") @@ (1 :> "new_account")
      [] variant = "Assign" -> (0 :> "assigned_account")
      [] variant = "Transfer" -> (0 :> "funding_account") @@ (1 :> "recipient_account")
      [] variant = "CreateAccountWithSeed" ->
            (0 :> "funding_account") @@ (1 :> "created_account")
      [] variant = "AdvanceNonceAccount" ->
            (0 :> "nonce_account") @@ (2 :> "nonce_authority")
      [] variant = "WithdrawNonceAccount" ->
            (0 :> "nonce_account") @@ (1 :> "recipient_account") @@ (4 :> "nonce_authority")
      [] variant = "InitializeNonceAccount" -> (0 :> "nonce_account")
      [] variant = "AuthorizeNonceAccount" ->
            (0 :> "nonce_account") @@ (1 :> "nonce_authority")
      [] variant = "Allocate" -> (0 :> "account")
      [] variant = "AllocateWithSeed" -> (0 :> "allocated_account")
      [] variant = "AssignWithSeed" -> (0 :> "assigned_account")
      [] variant = "TransferWithSeed" ->
            (0 :> "funding_account") @@ (1 :> "base_account") @@ (2 :> "recipient_account")
      [] variant = "UpgradeNonceAccount" -> (0 :> "nonce_account")

\* Key fields of the event that come from the decoded data: event field -> data field.
DataKeyTable(variant) ==
    CASE variant = "CreateAccount" -> ("owner" :> "owner")
      [] variant = "Assign" -> ("owner" :> "owner")
      [] variant = "CreateAccountWithSeed" ->
            ("owner" :> "owner") @@ ("base_account" :> "base")
      [] variant = "InitializeNonceAccount" -> ("nonce_authority" :> "authority")
      [] variant = "AuthorizeNonceAccount" -> ("new_nonce_authority" :> "new_authority")
      [] variant = "AllocateWithSeed" ->
            ("owner" :> "owner") @@ ("base_account" :> "base")
      [] variant = "AssignWithSeed" ->
            ("owner" :> "owner") @@ ("base_account" :> "base")
      [] variant = "TransferWithSeed" -> ("from_owner" :> "from_owner")
      [] OTHER -> <<>>

\* The least number of account indices the variant needs.
MinArity(variant) ==
    1 + CHOOSE p \in DOMAIN RoleTable(variant) :
            \A q \in DOMAIN RoleTable(variant) : q <= p

\* The instruction names a program of the table, and it is the target program.
OwnedByTarget(ins, tx) ==
    /\ ins.program_id_index < Len(tx.accounts)
    /\ tx.accounts[ins.program_id_index + 1] = SystemKey

Decodes(ins) == unpack(ins.data).tag = "Ok"
VariantOf(ins) == unpack(ins.data).fields.variant

\* Every position of the role table is supplied and names an entry of the table.
Resolves(ins, tx) ==
    \A p \in DOMAIN RoleTable(VariantOf(ins)) :
        /\ p < Len(ins.accounts)
        /\ ins.accounts[p + 1] < Len(tx.accounts)

\* A target-program instruction that decodes and resolves.
Emits(ins, tx) == OwnedByTarget(ins, tx) /\ Decodes(ins) /\ Resolves(ins, tx)

\* A target-program instruction that decodes to a variant needing more account
\* positions than its list supplies.
ArityShort(ins, tx) ==
    /\ OwnedByTarget(ins, tx)
    /\ Decodes(ins)
    /\ Len(ins.accounts) < MinArity(VariantOf(ins))

IsStrictPrefix(p, w) == Len(p) < Len(w) /\ p = Take(w, Len(p))
\* Well-formed data cut short.
Truncated(ins) == \E w \in WellFormedData : IsStrictPrefix(ins.data, w)

\* The loop of parse_transaction has been entered for the transaction i.
InTransaction ==
    /\ pc \in {"parse_transaction", "panicked"}
    /\ i < Len(block)
    /\ HasMeta(transaction) /\ ~IsFailed(transaction) /\ transaction.flatten_ok

\* The instruction under the loop of parse_transaction (the one a panic stopped at).
AtCurrent == InTransaction /\ j < Len(flattened(transaction))

\* Number of instructions of transaction t (1-based) the loop has passed.
Passed(t) ==
    IF t <= i THEN Len(block[t].instrs)
    ELSE IF t = i + 1 /\ InTransaction THEN j
    ELSE 0

\* The events of transaction t (1-based) that exist: those of its entry, or the
\* events of the loop in progress.
EntriesOf(t) ==
    {n \in 1..Len(block_events) : block_events[n].transaction_index = t - 1}
EventIndices(evs) == {evs[m].instruction_index : m \in DOMAIN evs}
IndicesOf(t) ==
    IF t = i + 1 /\ pc = "parse_transaction" THEN EventIndices(events)
    ELSE UNION {EventIndices(block_events[n].events) : n \in EntriesOf(t)}

\* P(tx, ev) holds of every event of the entries and of the loop in progress.
EveryEvent(P(_, _)) ==
    /\ pc = "parse_transaction" => \A m \in DOMAIN events : P(transaction, events[m])
    /\ \A n \in DOMAIN block_events :
          /\ block_events[n].transaction_index < Len(block)
          /\ \A m \in DOMAIN block_events[n].events :
                P(block[block_events[n].transaction_index + 1], block_events[n].events[m])

\* The instruction an event came from.
SourceOf(tx, ev) == tx.instrs[ev.instruction_index + 1]

(***************************************************************************)
(* C1.  A transaction whose meta carries an error yields no event: no entry *)
(* of the block output belongs to it, and the loop over instructions is    *)
(* never entered for it, whatever its instructions are.                    *)
(***************************************************************************)
C1_FailedTransactionNoEvents ==
    /\ \A n \in DOMAIN block_events :
          /\ block_events[n].transaction_index < Len(block)
          /\ block[block_events[n].transaction_index + 1].meta # "Some_err"
    /\ pc = "parse_transaction" => transaction.meta # "Some_err"
    /\ \A t \in 1..Len(block) : block[t].meta = "Some_err" => IndicesOf(t) = {}

\* A failed transaction holding a well-formed target-program instruction has
\* been passed, parse_block has returned, and the transaction has no entry.
C1_Witness ==
    /\ pc = "returned"
    /\ \E t \in 1..Len(block) :
          /\ block[t].meta = "Some_err"
          /\ \E k \in DOMAIN block[t].instrs : Emits(block[t].instrs[k], block[t])
          /\ EntriesOf(t) = {}

(***************************************************************************)
(* C2.  A decode or resolve failure of one target-program instruction only *)
(* excludes that instruction: once parse_block has stopped, every          *)
(* target-program instruction that decodes and resolves, in a successful   *)
(* transaction the loop was entered for, has its event in the output.      *)
(***************************************************************************)
C2_FailureIsInstructionLocal ==
    pc \in {"returned", "panicked"} =>
        \A t \in 1..Len(block) :
            (/\ t <= i \/ (t = i + 1 /\ InTransaction)
             /\ block[t].meta = "Some_ok" /\ block[t].flatten_ok)
            => \A k \in DOMAIN block[t].instrs :
                  Emits(block[t].instrs[k], block[t]) => (k - 1) \in IndicesOf(t)

(***************************************************************************)
(* C3.  parse_block completes on every input block: it never aborts.       *)
(***************************************************************************)
C3_BlockAlwaysCompletes == pc # "panicked"

\* The transaction went through the loop of parse_transaction.
Successful(tx) == tx.meta = "Some_ok" /\ tx.flatten_ok

(***************************************************************************)
(* C4.  The events of a successful transaction are exactly the             *)
(* target-program instructions that decoded and resolved, in stream order, *)
(* each with its position in the full flattened stream, so the positions   *)
(* are strictly increasing.                                                *)
(***************************************************************************)
\* evs is the event list of the first n instructions of tx.
InStreamOrder(evs, tx, n) ==
    /\ \A m \in 1..(Len(evs) - 1) :
          evs[m].instruction_index < evs[m + 1].instruction_index
    /\ \A m \in DOMAIN evs :
          /\ evs[m].instruction_index < n
          /\ Emits(SourceOf(tx, evs[m]), tx)
          /\ evs[m].event.type = VariantOf(SourceOf(tx, evs[m]))
    /\ \A k \in 1..n :
          Emits(tx.instrs[k], tx) => \E m \in DOMAIN evs : evs[m].instruction_index = k - 1

C4_EventsInStreamOrder ==
    /\ pc = "parse_transaction" => InStreamOrder(events, transaction, j)
    /\ \A n \in DOMAIN block_events :
          /\ block_events[n].transaction_index < Len(block)
          /\ LET tx == block[block_events[n].transaction_index + 1]
             IN  InStreamOrder(block_events[n].events, tx, Len(tx.instrs))

\* [A(target), B(other program), C(target)] gave two events, positions 0 and 2.
C4_Witness ==
    /\ pc = "returned"
    /\ Len(block_events) = 1
    /\ Len(block[block_events[1].transaction_index + 1].instrs) = 3
    /\ ~OwnedByTarget(block[block_events[1].transaction_index + 1].instrs[2],
                      block[block_events[1].transaction_index + 1])
    /\ Len(block_events[1].events) = 2
    /\ block_events[1].events[1].instruction_index = 0
    /\ block_events[1].events[2].instruction_index = 2

(***************************************************************************)
(* C5.  No event comes from an instruction whose program key is not the    *)
(* target program's: it is skipped without being decoded (nothing is       *)
(* logged for it), and parse_instruction on it returns an error.           *)
(***************************************************************************)
FromTarget(tx, ev) == OwnedByTarget(SourceOf(tx, ev), tx)

\* The instructions the loop has passed in successful transactions.
PassedInstrs ==
    UNION {{<<t, k>> : k \in 1..Passed(t)} : t \in {u \in 1..Len(block) : Successful(block[u])}}

C5_NoEventForOtherProgram ==
    /\ EveryEvent(FromTarget)
    /\ \A t \in 1..Len(block) : \A k \in DOMAIN block[t].instrs :
          LET ins == block[t].instrs[k]
          IN  (/\ ins.program_id_index < Len(block[t].accounts)
               /\ block[t].accounts[ins.program_id_index + 1] # SystemKey)
              => parse_instruction(ins, get_context(block[t])).tag = "Err"
    /\ Len(log) <= Cardinality({p \in PassedInstrs :
                                  OwnedByTarget(block[p[1]].instrs[p[2]], block[p[1]])})

\* A successful transaction held an instruction of another program with
\* well-formed data; parse_block returned without an event for it.
C5_Witness ==
    /\ pc = "returned"
    /\ \E t \in 1..Len(block) : \E k \in DOMAIN block[t].instrs :
          /\ Successful(block[t])
          /\ block[t].instrs[k].program_id_index = 1
          /\ Decodes(block[t].instrs[k])
          /\ (k - 1) \notin IndicesOf(t)

(***************************************************************************)
(* C6.  The block output holds one entry per passed transaction that       *)
(* produced an event and none for the others, in block order; an entry     *)
(* carries the position of its transaction among all transactions of the   *)
(* block and that transaction's signature.                                 *)
(***************************************************************************)
Produces(tx) ==
    Successful(tx) /\ \E k \in DOMAIN tx.instrs : Emits(tx.instrs[k], tx)

C6_OneEntryPerProducingTransaction ==
    /\ \A n \in 1..(Len(block_events) - 1) :
          block_events[n].transaction_index < block_events[n + 1].transaction_index
    /\ \A n \in DOMAIN block_events :
          /\ block_events[n].transaction_index < i
          /\ block_events[n].events # <<>>
          /\ block_events[n].signature
                = Base58(block[block_events[n].transaction_index + 1].signature)
    /\ \A t \in 1..i :
          (\E n \in DOMAIN block_events : block_events[n].transaction_index = t - 1)
              <=> Produces(block[t])

\* The first transaction gave no entry, and the entry of the second carries
\* transaction_index 1.
C6_Witness ==
    /\ pc = "returned"
    /\ Len(block_events) = 1
    /\ block_events[1].transaction_index = 1
    /\ ~Produces(block[1])

(***************************************************************************)
(* C7.  A target-program instruction that decodes to a variant needing     *)
(* more account positions than its list supplies yields the error          *)
(* AccountArityMismatch and no event, and never a crash.                   *)
(***************************************************************************)
C7_ShortAccountListIsError ==
    /\ (AtCurrent /\ ArityShort(instruction, transaction)) => pc # "panicked"
    /\ \A p \in PassedInstrs :
          ArityShort(block[p[1]].instrs[p[2]], block[p[1]])
          => /\ \E m \in DOMAIN log : log[m] = "AccountArityMismatch"
             /\ (p[2] - 1) \notin IndicesOf(p[1])

(***************************************************************************)
(* C8.  Every account field of an event is the text of the key at exactly  *)
(* the position of the role table in the instruction's account-index list, *)
(* and the key fields that are not in the table (owner, base, new          *)
(* authority) are the text of the decoded data key, which is none of the   *)
(* keys the list names.                                                    *)
(***************************************************************************)
RolesRespected(tx, ev) ==
    LET ins == SourceOf(tx, ev)
        v == VariantOf(ins)
        d == unpack(ins.data).fields
    IN  /\ ev.event.type = v
        /\ \A pos \in DOMAIN RoleTable(v) :
              /\ pos < Len(ins.accounts)
              /\ ins.accounts[pos + 1] < Len(tx.accounts)
              /\ ev.event[RoleTable(v)[pos]]
                    = Base58(tx.accounts[ins.accounts[pos + 1] + 1])
        /\ \A f \in DOMAIN DataKeyTable(v) :
              /\ ev.event[f] = Base58(d[DataKeyTable(v)[f]])
              /\ \A q \in DOMAIN ins.accounts :
                    ins.accounts[q] < Len(tx.accounts)
                    => ev.event[f] # Base58(tx.accounts[ins.accounts[q] + 1])

C8_RoleTablePositions == EveryEvent(RolesRespected)

\* An AdvanceNonceAccount event came from the list <<5, 4, 3, 2, 1>>: its
\* authority is account 3 (position 2), not account 4 (position 1).
C8_Witness ==
    /\ pc = "returned"
    /\ Len(block_events) = 1
    /\ block_events[1].events[1].event.type = "AdvanceNonceAccount"
    /\ SourceOf(block[1], block_events[1].events[1]).accounts = <<5, 4, 3, 2, 1>>
    /\ block_events[1].events[1].event.nonce_authority = Base58(Key(3))

(***************************************************************************)
(* C9.  Rendering of the seed by the four seed-carrying variants.          *)
(***************************************************************************)
SeedText(ev) ==
    IF ev.event.type = "TransferWithSeed" THEN ev.event.from_seed ELSE ev.event.seed
DecodedSeed(ins) ==
    LET d == unpack(ins.data).fields
    IN  IF d.variant = "TransferWithSeed" THEN d.from_seed ELSE d.seed
RendersBase58(tx, ev) == SeedText(ev) = Base58(DecodedSeed(SourceOf(tx, ev)))
PassesRaw(tx, ev) == SeedText(ev) = DecodedSeed(SourceOf(tx, ev))

\* The events of the seed-carrying variants follow the rule: v0 renders its
\* seed in base 58, the other three pass it through.
OnlyEncoded(v0, tx, ev) ==
    ev.event.type \in SeedVariants
    => IF ev.event.type = v0 THEN RendersBase58(tx, ev) ELSE PassesRaw(tx, ev)

\* C9 as stated: exactly one of the four variants renders its seed in base 58
\* and the other three pass the decoded seed through unchanged.
C9_OneVariantEncodesSeed ==
    \E v0 \in SeedVariants :
        /\ pc = "parse_transaction" =>
              \A m \in DOMAIN events : OnlyEncoded(v0, transaction, events[m])
        /\ \A n \in DOMAIN block_events : \A m \in DOMAIN block_events[n].events :
              OnlyEncoded(v0, block[block_events[n].transaction_index + 1],
                          block_events[n].events[m])

\* C9 as the code has it: CreateAccountWithSeed passes the decoded seed
\* through unchanged, and AllocateWithSeed, AssignWithSeed and TransferWithSeed
\* render it in base 58.
OnlyCreateRaw(tx, ev) ==
    ev.event.type \in SeedVariants
    => IF ev.event.type = "CreateAccountWithSeed"
       THEN PassesRaw(tx, ev)
       ELSE RendersBase58(tx, ev)

C9_OnlyCreateAccountWithSeedRaw == EveryEvent(OnlyCreateRaw)

\* A CreateAccountWithSeed event and an event of a sibling variant, both from
\* a seed that is not empty (so that its base-58 text differs from it).
C9_Witness ==
    /\ pc = "returned"
    /\ Len(block_events) = 1
    /\ Len(block_events[1].events) = 2
    /\ block_events[1].events[1].event.type = "CreateAccountWithSeed"
    /\ block_events[1].events[2].event.type = "AllocateWithSeed"
    /\ \A m \in 1..2 :
          /\ DecodedSeed(SourceOf(block[1], block_events[1].events[m])) # <<>>
          /\ Base58(DecodedSeed(SourceOf(block[1], block_events[1].events[m])))
                # DecodedSeed(SourceOf(block[1], block_events[1].events[m]))

(***************************************************************************)
(* C10.  Well-formed data cut short decodes to the error TruncatedData;    *)
(* the instruction yields no event, the error is logged and nothing        *)
(* crashes.                                                                *)
(***************************************************************************)
C10_TruncatedDataIsError ==
    /\ \A t \in 1..Len(block) : \A k \in DOMAIN block[t].instrs :
          Truncated(block[t].instrs[k])
          => unpack(block[t].instrs[k].data) = DecodeErr("TruncatedData")
    /\ (AtCurrent /\ OwnedByTarget(instruction, transaction) /\ Truncated(instruction))
          => pc # "panicked"
    /\ \A p \in PassedInstrs :
          LET ins == block[p[1]].instrs[p[2]]
          IN  (OwnedByTarget(ins, block[p[1]]) /\ Truncated(ins))
              => /\ (p[2] - 1) \notin IndicesOf(p[1])
                 /\ \E m \in DOMAIN log : log[m] = "TruncatedData"

\* A CreateAccountWithSeed cut inside its seed (the length prefix says more
\* bytes than remain) was passed: one log line, no event.
C10_Witness ==
    /\ pc = "returned"
    /\ Len(block) = 1 /\ Len(block[1].instrs) = 1
    /\ LET ins == block[1].instrs[1]
       IN  /\ Len(ins.data) = 4 + KeyLen + 8 + 1
           /\ Truncated(ins)
           /\ FromLE(Take(ins.data, 4)) = 3
           /\ FromLE(SubSeq(ins.data, 4 + KeyLen + 1, 4 + KeyLen + 8)) > 1
    /\ log = <<"TruncatedData">>
    /\ block_events = <<>>

(***************************************************************************)
(* C11.  The output entry of a transaction is a function of the            *)
(* transaction and its index alone: whatever the other transactions of the *)
(* block are, once parse_block has stopped, the output holds exactly one   *)
(* entry for a transaction that produces events (its signature, its index, *)
(* the events of its own instructions) and none for any other.             *)
(***************************************************************************)
\* parse_transaction(tx) panics, by tx alone.
Crashes(tx) ==
    \/ ~HasMeta(tx)
    \/ /\ Successful(tx)
       /\ \E k \in DOMAIN tx.instrs :
             \/ tx.instrs[k].program_id_index >= Len(tx.accounts)
             \/ /\ OwnedByTarget(tx.instrs[k], tx)
                /\ Decodes(tx.instrs[k])
                /\ ~Resolves(tx.instrs[k], tx)

\* evs is the one event list tx determines.
IsEventListOf(evs, tx) ==
    /\ InStreamOrder(evs, tx, Len(tx.instrs))
    /\ \A m \in DOMAIN evs :
          evs[m].event = parse_instruction(SourceOf(tx, evs[m]), get_context(tx)).event

\* What parse_block hands to its caller: nothing when it panicked.
Output == IF pc = "returned" THEN block_events ELSE <<>>

\* The entries of `out` for transaction t (1-based) are those block[t] determines.
EntryDetermined(out, t) ==
    LET ns == {n \in DOMAIN out : out[n].transaction_index = t - 1}
    IN  IF Produces(block[t])
        THEN /\ Cardinality(ns) = 1
             /\ \A n \in ns :
                   /\ out[n].signature = Base58(block[t].signature)
                   /\ IsEventListOf(out[n].events, block[t])
        ELSE ns = {}

C11_EntryIsFunctionOfTransaction ==
    pc \in {"returned", "panicked"} =>
        \A t \in 1..Len(block) : ~Crashes(block[t]) => EntryDetermined(Output, t)

(***************************************************************************)
(* C12.  A transaction that did not fail but whose instruction stream      *)
(* cannot be built (get_structured_instructions returns an error) yields   *)
(* no entry, whatever its instructions are: the loop over instructions is  *)
(* never entered for it and nothing crashes on it.  The entries of the     *)
(* other transactions are those they determine, with transaction_index     *)
(* still counted over all transactions of the block.                       *)
(***************************************************************************)
FlattenFailed(tx) == tx.meta = "Some_ok" /\ ~tx.flatten_ok

C12_FlattenErrorSkipsTransaction ==
    /\ (pc \in {"parse_transaction", "panicked"} /\ i < Len(block))
          => ~FlattenFailed(transaction)
    /\ \A n \in DOMAIN block_events :
          /\ block_events[n].transaction_index < Len(block)
          /\ ~FlattenFailed(block[block_events[n].transaction_index + 1])
    /\ \A u \in 1..i :
          FlattenFailed(block[u])
          => \A t \in (1..i) \ {u} : EntryDetermined(block_events, t)

\* The first transaction could not be flattened although it holds a
\* well-formed target-program instruction; the second one has its entry, with
\* transaction_index 1.
C12_Witness ==
    /\ pc = "returned"
    /\ Len(block) = 2
    /\ FlattenFailed(block[1])
    /\ \E k \in DOMAIN block[1].instrs : Emits(block[1].instrs[k], block[1])
    /\ Len(block_events) = 1
    /\ block_events[1].transaction_index = 1
    /\ block_events[1].signature = Base58(block[2].signature)
    /\ block_events[1].events # <<>>

====
